---- MODULE Spec2Model ----
(***************************************************************************)
(* The payment reconciliation pipeline of the Splynx -> UISP bridge:       *)
(* POST /webhook/payment (routes/webhook.js), the payments table           *)
(* (utils/database.js), postPaymentToUISP (services/uispService.js) and    *)
(* retryWithBackoff (utils/retry.js).                                      *)
(*                                                                         *)
(* Every request is one run of the async handler.  An action is the code   *)
(* that runs between two suspension points (awaits) of the handler: the    *)
(* completion of the awaited call together with the synchronous code that  *)
(* follows it up to the next await.  Database calls may reject and HTTP    *)
(* calls may fail; those outcomes are inputs chosen with \E.               *)
(***************************************************************************)
EXTENDS Integers, Sequences, FiniteSets, TLC

(* ------------------------------ bounds -------------------------------- *)
\* number of webhook deliveries
NumReq == 2
\* last value of the millisecond clock read by Date.now()
MaxTime == 1

(* ------------------------- program constants -------------------------- *)
maxRetries == 3
\* retryWithBackoff's options: postPaymentToUISP passes none of them
DefaultRetryDelayMs == 1000
maxDelay == 30000
backoffMultiplier == 2

Reqs == 1..NumReq
Times == 0..MaxTime

\* CURRENT_TIMESTAMP has a resolution of one second, Date.now() of one millisecond
MillisPerSecond == 1000
CURRENT_TIMESTAMP(t) == t \div MillisPerSecond

(* ------------------------------ values -------------------------------- *)
\* A transaction id is a string; it is encoded as <<kind, a, b>>:
\* <<"CALLER", n, 0>> is the caller's string number n, <<"SPLYNX", t, c>> is
\* `SPLYNX-${t}-${c}`, and NoTid is the absent (falsy) value.
NoTid == <<"NONE", 0, 0>>
CallerTids == {<<"CALLER", 1, 0>>}
\* falsy customer identifier / amount (absent field)
NoCust == ""
NoAmount == 0
Custs == {"W2123", "w77", "838", "404"}
Amounts == {500, 700}
\* no target client (null)
NoClient == 0
\* NULL in a DATETIME column
NoTime == -1

\* JSON bodies the target system answers a successful POST /payments with
UispBodies == {"B1", "B2"}
\* messages of the errors axios raises for a failed POST /payments
ForwardErrors == {"timeout of 30000ms exceeded", "Request failed with status code 500"}
DbError == "SQLITE_ERROR"
UniqueError == "SQLITE_CONSTRAINT: UNIQUE constraint failed: payments.transaction_id"
NoAppKeyError == "UISP_APP_KEY not configured"
NoError == "null"
NullResponse == <<"null", "">>

TypeErrorMessage == "splynxCustomerId.toUpperCase is not a function"

\* JSON.stringify of a response body
JSONstringify(body) == <<"json", body>>

(* ------------------------- webhook signature --------------------------- *)
\* The bytes of a request are one of the serializations of its JSON value:
\* "compact" is the text JSON.stringify produces, "escaped" is a text with
\* other whitespace or escapes (as PHP's json_encode writes "\/").
RawFormats == {"compact", "escaped"}

\* express.json() parses the bytes and JSON.stringify(req.body) writes the
\* value again: the result is the compact text whatever the bytes were
StringifyParsed(raw) == "compact"

\* the hex digest of the HMAC-SHA-256 of a text under the shared secret
HMAC(text) == <<"hex64", text>>

\* the value of the first signature header that is set: none, the digest of
\* a text, 64 hex digits that are no digest of the payload, or a shorter text
NoSignature == <<"none", "">>
Signatures ==
    {NoSignature, HMAC("compact"), HMAC("escaped"), <<"hex64", "wrong">>,
     <<"short", "">>}

\* crypto.timingSafeEqual throws when the two buffers differ in length
timingSafeEqualThrows(a, b) == a[1] # b[1]

\* req.webhookValidated as validateWebhookSignature sets it
validateWebhookSignature(secret, raw, signature) ==
    IF ~secret THEN FALSE
    ELSE IF signature = NoSignature THEN FALSE
    ELSE IF timingSafeEqualThrows(signature, HMAC(StringifyParsed(raw))) THEN FALSE
    ELSE signature = HMAC(StringifyParsed(raw))

(* ---------------------- the two external systems ---------------------- *)
\* login of a customer in the source system's directory
SplynxLogin(cust) ==
    CASE cust = "W2123" -> "W2123"
      [] cust = "838" -> "jdoe"
      [] OTHER -> "nobody"

\* id of the target client whose userIdent equals ident (NoClient: none)
UispClientByUserIdent(ident) ==
    CASE ident = "W2123" -> 2001
      [] ident = "w77" -> 5005
      [] ident = "jdoe" -> 3003
      [] OTHER -> NoClient

\* the pre-seeded customer_mappings rows
DefaultMappings == [c \in {"838"} |-> 1211]

VARIABLES
    appKey,      \* process.env.UISP_APP_KEY is set
    now,         \* the clock Date.now() and CURRENT_TIMESTAMP read
    payments,    \* the payments table: a set of rows
    mappings,    \* the customer_mappings table: splynx_customer_id -> uisp_client_id
    webhookLogs, \* the webhook_logs table: the requests logged
    pc,          \* per request: where its handler is suspended
    pd,          \* per request: paymentData
    attempt,     \* per request: retryWithBackoff's loop variable
    lastError,   \* per request: retryWithBackoff's lastError
    uispError,   \* per request: the error postPaymentToUISP threw
    result,      \* per request: the body postPaymentToUISP returned
    resp,        \* per request: the HTTP response sent
    called,      \* per request: postPaymentToUISP was invoked (history)
    fwd,         \* per transaction id: the forward attempts made (history)
    webhookSecret, \* process.env.SPLYNX_WEBHOOK_SECRET is set
    convexUrl,   \* process.env.CONVEX_URL is set (convexClient was created)
    req,         \* per request: the request as it was received
    lookup,      \* per request: lookupMethod, customerLogin and the calls made to resolve
    mirror,      \* the mirror's payments table: transaction id -> status
    mirrorCalls, \* the calls to the mirror that are in flight
    mirrorSent,  \* per transaction id: the requests sent to the mirror (history)
    clients,     \* the clients table: uisp_id -> last_payment_at
    syncTasks,   \* the background client syncs that are in flight
    initialDelay, \* parseInt(process.env.RETRY_DELAY_MS) || 1000
    slept,       \* per request: the delays retryWithBackoff has slept (history)
    sourceTime,  \* the Date formatUispDateTime has parsed its argument to
    providerPaymentTime, \* the text formatUispDateTime returned
    uispClients, \* the number of clients in the target's collection
    unstorable,  \* the clients whose upsert the store rejects
    sync,        \* the locals of the run of syncAllClients
    syncLog      \* the run's row of the sync_logs table

\* the configuration read from the environment at start
configVars == <<webhookSecret, convexUrl, initialDelay>>
\* the state of the fire-and-forget work: mirror calls and client sync
mirrorVars == <<mirror, mirrorCalls, mirrorSent>>
syncVars == <<clients, syncTasks>>
\* the payment time sent to the target
dateVars == <<sourceTime, providerPaymentTime>>
\* the full client sync
fullSyncVars == <<uispClients, unstorable, sync, syncLog>>

vars == <<appKey, now, payments, mappings, webhookLogs, pc, pd, attempt,
          lastError, uispError, result, resp, called, fwd, webhookSecret,
          convexUrl, req, lookup, mirror, mirrorCalls, mirrorSent, clients,
          syncTasks, initialDelay, slept, sourceTime, providerPaymentTime,
          uispClients, unstorable, sync, syncLog>>

\* a request: the JSON value of its body, the text it was sent as and its
\* signature header
NoBody == [shape |-> "none", idKey |-> "none", idType |-> "none", cust |-> NoCust,
           amount |-> NoAmount, transaction_id |-> NoTid]
NoReq == [body |-> NoBody, raw |-> "none", signature |-> NoSignature]
\* the resolver's locals, and the calls it has made (history)
NoLookup == [method |-> "none", login |-> "", calls |-> <<>>]
\* requests sent to the mirror for a transaction id
NoSent == [insert |-> 0, query |-> 0, update |-> 0]

NoPD == [transaction_id |-> NoTid, client_id |-> NoClient, amount |-> NoAmount,
         splynx_customer_id |-> NoCust, synthesized |-> FALSE]
NoResp == [code |-> 0, kind |-> "none", status |-> "none", message |-> "none",
           splynxCustomerId |-> NoCust, customerLogin |-> "", missingFields |-> {}]
\* the forward attempts of a transaction id: n calls of fn(), ok of them
\* answered 2xx (okBody: the body), failed of them rejected; lastFail is the
\* message of the latest call if it was rejected
NoFwd == [n |-> 0, ok |-> 0, okBody |-> "none", failed |-> 0, lastFail |-> NoError]

\* an HTTP response: its code, which of the handler's answers it is, and the
\* status / message fields of its JSON body
Response(code, kind, status, message) ==
    [code |-> code, kind |-> kind, status |-> status, message |-> message,
     splynxCustomerId |-> NoCust, customerLogin |-> "", missingFields |-> {}]

\* mutant: the 400 does not say which customer was not found
CustomerNotFoundBare(cust, login) ==
    Response(400, "customer_not_found", "none", "none")

\* the 400 of a customer no strategy resolved: it carries the identifier
\* received and customerLogin
CustomerNotFound(cust, login) ==
    [Response(400, "customer_not_found", "none", "none")
        EXCEPT !.splynxCustomerId = cust, !.customerLogin = login]

(* --------------------------- payments table --------------------------- *)
RowsOf(table, tid) == {row \in table : row.transaction_id = tid}

\* mutant: every INSERT is refused
InsertAlwaysRefused(table, tid) == TRUE

\* mutant: the column is not declared UNIQUE
NoUniqueConstraint(table, tid) == FALSE

\* transaction_id TEXT UNIQUE: the INSERT is refused when the id is there
UniqueViolation(table, tid) == RowsOf(table, tid) # {}

insertPayment(table, rec, r) ==
    table \cup {[transaction_id |-> rec.transaction_id,
                 client_id |-> rec.client_id,
                 amount |-> rec.amount,
                 status |-> "pending",
                 uisp_response |-> NullResponse,
                 error_message |-> NoError,
                 retry_count |-> 0,
                 last_retry_at |-> -1,
                 id |-> r]}

\* mutant: the UPDATE has no WHERE clause
updateEveryPaymentStatus(table, tid, status, uispResponse, errorMessage) ==
    {[row EXCEPT !.status = status,
                 !.uisp_response = uispResponse,
                 !.error_message = errorMessage] : row \in table}

\* mutant: the response is bound to the error_message column
updatePaymentStatusSwapped(table, tid, status, uispResponse, errorMessage) ==
    {IF row.transaction_id = tid
        THEN [row EXCEPT !.status = status,
                         !.uisp_response = NullResponse,
                         !.error_message = NoError]
        ELSE row : row \in table}

\* mutant: the WHERE clause matches no row
updatePaymentStatusOfNoRow(table, tid, status, uispResponse, errorMessage) == table

updatePaymentStatus(table, tid, status, uispResponse, errorMessage) ==
    {IF row.transaction_id = tid
        THEN [row EXCEPT !.status = status,
                         !.uisp_response = uispResponse,
                         !.error_message = errorMessage]
        ELSE row : row \in table}

\* mutant: the UPDATE of the retry count has no WHERE clause
updateEveryRetryCount(table, tid, retryCount, ts) ==
    {[row EXCEPT !.retry_count = retryCount, !.last_retry_at = ts] : row \in table}

\* mutant: every retry also records the error and marks the payment failed
updateRetryCountAndStatus(table, tid, retryCount, ts) ==
    {IF row.transaction_id = tid
        THEN [row EXCEPT !.retry_count = retryCount, !.last_retry_at = ts,
                         !.status = "failed"]
        ELSE row : row \in table}

updateRetryCount(table, tid, retryCount, ts) ==
    {IF row.transaction_id = tid
        THEN [row EXCEPT !.retry_count = retryCount, !.last_retry_at = ts]
        ELSE row : row \in table}

\* mutant: the audit record is not written
logWebhookDropped(logs, r, validated) == logs

\* INSERT INTO webhook_logs
logWebhook(logs, r, validated) == logs \cup {[req |-> r, validated |-> validated]}

\* sendPaymentToConvex up to its first await: without a client nothing is
\* sent, otherwise the insertPayment mutation is in flight
sendPaymentToConvex(calls, url, tid) ==
    IF ~url THEN calls
    ELSE calls \cup {[op |-> "insert", tid |-> tid, status |-> "pending",
                      stage |-> "mutation"]}

\* mutant: the mirror is told success whatever was written to the ledger
updatePaymentStatusInConvexAsSuccess(calls, url, tid, status) ==
    IF ~url THEN calls
    ELSE calls \cup {[op |-> "update", tid |-> tid, status |-> "success",
                      stage |-> "query"]}

\* updatePaymentStatusInConvex up to its first await: without a client
\* nothing is sent, otherwise the query for the payment is in flight
updatePaymentStatusInConvex(calls, url, tid, status) ==
    IF ~url THEN calls
    ELSE calls \cup {[op |-> "update", tid |-> tid, status |-> status,
                      stage |-> "query"]}

\* syncSingleClient(clientId).then(updateClientLastPayment).catch(log)
SyncTask(r, client) == [req |-> r, client |-> client, stage |-> "sync"]

\* INSERT INTO clients ... ON CONFLICT(uisp_id) DO UPDATE: last_payment_at
\* is not among the columns written
upsertClient(table, client) ==
    [c \in DOMAIN table \cup {client} |->
        IF c \in DOMAIN table THEN table[c] ELSE NoTime]

\* UPDATE clients SET last_payment_at = CURRENT_TIMESTAMP WHERE uisp_id = ?
updateClientLastPayment(table, client, ts) ==
    [c \in DOMAIN table |-> IF c = client THEN ts ELSE table[c]]

\* INSERT INTO customer_mappings ... ON CONFLICT(splynx_customer_id) DO UPDATE
upsertCustomerMapping(table, cust, client) ==
    [c \in DOMAIN table \cup {cust} |-> IF c = cust THEN client ELSE table[c]]

\* SELECT * FROM payments WHERE transaction_id = ? (db.get: one row)
getPaymentByTransactionId(table, tid) ==
    CHOOSE row \in RowsOf(table, tid) : \A o \in RowsOf(table, tid) : row.id <= o.id

(* ------------------------- webhook normalization ----------------------- *)
\* The request bodies.  shape: "jsonapi" is {data: {customer_id, attributes}},
\* "payment" is {payment: {...}}, "flat" is the payment object itself.  idKey
\* is the key the payment object carries the customer under and idType the
\* JSON type of the customer identifier (the string "838" or the number
\* 838); absent fields hold NoCust / NoAmount / NoTid.
Bodies ==
    {b \in [shape : {"jsonapi", "payment", "flat"},
            idKey : {"customer_id", "client_id"},
            idType : {"string", "number"},
            cust : Custs \cup {NoCust},
            amount : Amounts \cup {NoAmount},
            transaction_id : CallerTids \cup {NoTid}] :
        b.idType = "number" => b.cust \in {"838", "404"}}

\* the bodies of the deliveries that run concurrently
CoreBodies ==
    {b \in Bodies : b.shape = "flat" /\ b.idKey = "customer_id"
                    /\ b.idType = "string" /\ b.cust \in {"W2123", NoCust}}

\* the JSON value {}
EmptyObject ==
    [shape |-> "flat", idKey |-> "customer_id", idType |-> "string", cust |-> NoCust,
     amount |-> NoAmount, transaction_id |-> NoTid]

\* express.json(): req.body is {} when the request has no body ("empty"),
\* and the parsed value otherwise
expressJson(raw, sent) == IF raw = "empty" THEN EmptyObject ELSE sent

\* Object.keys(paymentData) after normalization
PaymentKeys(body) ==
    (IF body.cust # NoCust /\ body.shape # "jsonapi" THEN {body.idKey} ELSE {})
    \cup (IF body.amount # NoAmount THEN {"amount"} ELSE {})
    \cup (IF body.transaction_id # NoTid THEN {"transaction_id"} ELSE {})

\* the customer identifier the three shapes yield
SplynxCustomerId(body) == body.cust

\* String.prototype.toUpperCase on the identifiers in use
toUpperCase(cust) == IF cust = "w77" THEN "W77" ELSE cust

\* splynxCustomerId.toUpperCase().startsWith('W')
StartsWithW(cust) == toUpperCase(cust) \in {"W2123", "W77"}

\* mutant: no required field is ever reported missing
NoFieldMissing(body) == {}

\* requiredFields.filter(field => !paymentData[field]): client_id has just
\* been assigned the resolved client, so only amount can be missing
MissingFields(body) == IF body.amount = NoAmount THEN {"amount"} ELSE {}

\* the 400 that lists the missing fields
MissingRequiredFields(missing) ==
    [Response(400, "missing_fields", "none", "none") EXCEPT !.missingFields = missing]

\* splynxCustomerId.toUpperCase() is a TypeError: a number has no such method
ToUpperCaseThrows(body) == body.idType = "number"

(* --------------------------- identity resolver ------------------------- *)
\* findUISPClientByUserIdent: throws without an app key or when the call
\* fails (netOk = FALSE); otherwise the matching client or null
SearchThrows(key, netOk) == ~key \/ ~netOk

\* Strategy 1: login from the source directory, then target search by login
Method1(cust, key, dirOk, netOk) ==
    IF ~dirOk \/ SearchThrows(key, netOk) THEN NoClient
    ELSE UispClientByUserIdent(SplynxLogin(cust))

\* Strategy 2: direct search by the raw identifier, for W... identifiers
Method2(cust, found, key, netOk) ==
    IF found # NoClient \/ ~StartsWithW(cust) THEN found
    ELSE IF SearchThrows(key, netOk) THEN NoClient
    ELSE UispClientByUserIdent(cust)

\* dbHelpers.getUispClientId
getUispClientId(table, cust) ==
    IF cust \in DOMAIN table THEN table[cust] ELSE NoClient

\* mutant: the mapping table wins over what the earlier strategies found
Method3MappingFirst(cust, found, table) ==
    IF getUispClientId(table, cust) # NoClient THEN getUispClientId(table, cust)
    ELSE found

\* Strategy 3: the mapping table
Method3(cust, found, table) ==
    IF found # NoClient THEN found ELSE getUispClientId(table, cust)

\* Method 3 is reached (and so its read may reject)
ReadsMapping(cust, key, dirOk, net1Ok, net2Ok) ==
    Method2(cust, Method1(cust, key, dirOk, net1Ok), key, net2Ok) = NoClient

\* customerLogin: the directory's login, or the identifier when none was obtained
CustomerLogin(cust, dirOk) == IF dirOk THEN SplynxLogin(cust) ELSE cust

SearchOutcome(ident, key, netOk) ==
    IF SearchThrows(key, netOk) THEN "throws"
    ELSE IF UispClientByUserIdent(ident) = NoClient THEN "none" ELSE "found"

Call(strategy, callee, outcome) ==
    [strategy |-> strategy, callee |-> callee, outcome |-> outcome]

\* the calls Method 1 makes: the directory lookup and, if it returned, the search
Method1Calls(cust, key, dirOk, netOk) ==
    IF ~dirOk THEN <<Call(1, "directory", "throws")>>
    ELSE <<Call(1, "directory", "found"),
           Call(1, "search", SearchOutcome(SplynxLogin(cust), key, netOk))>>

\* the call Method 2 makes, if any
Method2Calls(cust, found, key, netOk) ==
    IF found # NoClient \/ ~StartsWithW(cust) THEN <<>>
    ELSE <<Call(2, "search", SearchOutcome(cust, key, netOk))>>

\* mutant: the mapping table is read whatever the earlier strategies found
Method3CallsAlways(cust, found, table, mapOk) ==
    <<Call(3, "mapping",
           IF getUispClientId(table, cust) = NoClient THEN "none" ELSE "found")>>

\* the call Method 3 makes, if any
Method3Calls(cust, found, table, mapOk) ==
    IF found # NoClient THEN <<>>
    ELSE <<Call(3, "mapping",
                IF ~mapOk THEN "throws"
                ELSE IF getUispClientId(table, cust) = NoClient THEN "none"
                ELSE "found")>>

\* lookupMethod
LookupMethod(m1, m2, m3) ==
    IF m1 # NoClient THEN "splynx_api"
    ELSE IF m2 # NoClient THEN "direct_userIdent"
    ELSE IF m3 # NoClient THEN "mapping_table"
    ELSE "unknown"

\* mutant: the synthesized id does not carry the time
SynthesizedTidOfClient(t, client) == <<"SPLYNX", 0, client>>

\* `SPLYNX-${Date.now()}-${paymentData.client_id}`
SynthesizedTid(t, client) == <<"SPLYNX", t, client>>

TransactionIdFor(body, t, client) ==
    IF body.transaction_id # NoTid THEN body.transaction_id
    ELSE SynthesizedTid(t, client)

(* ------------------------- POST /webhook/payment ----------------------- *)
Respond(r, response) ==
    /\ resp' = [resp EXCEPT ![r] = response]
    /\ pc' = [pc EXCEPT ![r] = "done"]

\* deliveries are numbered in the order they arrive
NextToArrive(r) == \A q \in Reqs : q < r => pc[q] # "idle"

\* The handler from its entry to the idempotency read: the signature
\* middleware, audit log, normalization, ping detection, identity resolution,
\* validation of the required fields and the synthesis of the transaction id.
ReceiveFrom(r, bodies, raws, signatures) ==
    /\ pc[r] = "idle"
    /\ NextToArrive(r)
    /\ \E sent \in bodies, raw \in raws, signature \in signatures,
          logOk \in BOOLEAN :
        LET body == expressJson(raw, sent)
            cust == SplynxCustomerId(body)
            keys == PaymentKeys(body)
            webhookValidated == validateWebhookSignature(webhookSecret, raw, signature)
        IN
        /\ req' = [req EXCEPT ![r] =
                      [body |-> body, raw |-> raw, signature |-> signature]]
        /\ IF ~logOk
           THEN \* logWebhook rejects: the outer catch answers
                /\ Respond(r, Response(500, "internal", "none", DbError))
                /\ UNCHANGED <<webhookLogs, pd, lookup>>
           ELSE
           /\ webhookLogs' = logWebhook(webhookLogs, r, webhookValidated)
           /\ IF keys = {}
              THEN /\ Respond(r, Response(200, "ping", "none", "none"))
                   /\ UNCHANGED <<pd, lookup>>
              ELSE IF cust = NoCust
              THEN /\ IF body.amount = NoAmount \/ Cardinality(keys) < 2
                      THEN Respond(r, Response(200, "test", "none", "none"))
                      ELSE Respond(r, Response(400, "missing_identification", "none", "none"))
                   /\ UNCHANGED <<pd, lookup>>
              ELSE
              \E dirOk \in BOOLEAN :
              \E net1Ok \in (IF dirOk THEN BOOLEAN ELSE {TRUE}) :
              \E net2Ok \in (IF Method1(cust, appKey, dirOk, net1Ok) = NoClient
                                /\ StartsWithW(cust) THEN BOOLEAN ELSE {TRUE}) :
              \E mapOk \in (IF ReadsMapping(cust, appKey, dirOk, net1Ok, net2Ok)
                               THEN BOOLEAN ELSE {TRUE}) :
                LET m1 == Method1(cust, appKey, dirOk, net1Ok)
                    m2 == Method2(cust, m1, appKey, net2Ok)
                    uispClientId == Method3(cust, m2, mappings)
                    customerLogin == CustomerLogin(cust, dirOk)
                    calls1 == Method1Calls(cust, appKey, dirOk, net1Ok)
                    calls2 == Method2Calls(cust, m1, appKey, net2Ok)
                    calls3 == Method3Calls(cust, m2, mappings, mapOk)
                    keysAfter == keys \cup {"client_id", "splynx_customer_id"}
                IN
                IF m1 = NoClient /\ ToUpperCaseThrows(body)
                THEN \* the TypeError leaves the handler: the outer catch answers
                     /\ Respond(r, Response(500, "internal", "none", TypeErrorMessage))
                     /\ lookup' = [lookup EXCEPT ![r] =
                           [method |-> "unknown", login |-> customerLogin,
                            calls |-> calls1]]
                     /\ UNCHANGED pd
                ELSE
                /\ lookup' = [lookup EXCEPT ![r] =
                      [method |-> IF mapOk THEN LookupMethod(m1, m2, uispClientId)
                                  ELSE "unknown",
                       login |-> customerLogin,
                       calls |-> calls1 \o calls2 \o calls3]]
                /\ IF ~mapOk
                   THEN \* getUispClientId rejects: the outer catch answers
                        /\ Respond(r, Response(500, "internal", "none", DbError))
                        /\ UNCHANGED pd
                   ELSE IF uispClientId = NoClient
                   THEN /\ Respond(r, CustomerNotFound(cust, customerLogin))
                        /\ UNCHANGED pd
                   ELSE IF MissingFields(body) # {}
                   THEN /\ IF Cardinality(keysAfter) < 3
                           THEN Respond(r, Response(200, "test", "none", "none"))
                           ELSE Respond(r, MissingRequiredFields(MissingFields(body)))
                        /\ UNCHANGED pd
                   ELSE
                        /\ pd' = [pd EXCEPT ![r] =
                              [transaction_id |-> TransactionIdFor(body, now, uispClientId),
                               client_id |-> uispClientId,
                               amount |-> body.amount,
                               splynx_customer_id |-> cust,
                               synthesized |-> body.transaction_id = NoTid]]
                        /\ pc' = [pc EXCEPT ![r] = "read"]
                        /\ UNCHANGED resp
    /\ UNCHANGED <<configVars, dateVars, fullSyncVars, slept, mirrorVars, syncVars, appKey, now, payments, mappings,
                   attempt, lastError, uispError, result, called, fwd>>

(* ------------------------------ forwarding ----------------------------- *)
FwdIn(f, tid) == IF tid \in DOMAIN f THEN f[tid] ELSE NoFwd
FwdOf(tid) == FwdIn(fwd, tid)
FwdWith(tid, v) == [t \in DOMAIN fwd \cup {tid} |-> IF t = tid THEN v ELSE fwd[t]]

\* retryWithBackoff calls fn(): one more POST /payments is in flight
InvokeFn(r) ==
    /\ fwd' = FwdWith(pd[r].transaction_id,
                      [FwdOf(pd[r].transaction_id) EXCEPT !.n = @ + 1])
    /\ pc' = [pc EXCEPT ![r] = "attempt"]

\* the handler's catch (uispError): updatePaymentStatus(..., 'failed') is issued
CatchUispError(r, error) ==
    /\ uispError' = [uispError EXCEPT ![r] = error]
    /\ pc' = [pc EXCEPT ![r] = "updFailed"]

\* the idempotency test of the handler: a row was read
AlreadyProcessed(table, tid) == RowsOf(table, tid) # {}

\* mutant: the duplicate's response reports a fixed status
ExistingStatusAssumed(table, tid) == "success"

\* existingPayment.status, as the duplicate's response reports it
ExistingStatus(table, tid) == getPaymentByTransactionId(table, tid).status

RECURSIVE Pow(_, _)
\* Math.pow on naturals
Pow(base, e) == IF e = 0 THEN 1 ELSE base * Pow(base, e - 1)

\* Math.min
Min(a, b) == IF a <= b THEN a ELSE b

\* mutant: the delay is not capped
DelayUncapped(initial, att) == initial * Pow(backoffMultiplier, att)

\* the delay computed after the attempt with index att failed
Delay(initial, att) == Min(initial * Pow(backoffMultiplier, att), maxDelay)

\* mutant: the last attempt is retried as well
RetryAgainAfterLast(att) == att <= maxRetries

\* retryWithBackoff: attempt < maxRetries, another attempt follows
RetryAgain(att) == att < maxRetries

\* a delivery of the concurrent deliveries: unsigned, sent as compact text
Receive(r) == ReceiveFrom(r, CoreBodies, {"compact"}, {NoSignature})

\* getPaymentByTransactionId resolves: answer a duplicate or go on to insert
ReadExisting(r) ==
    /\ pc[r] = "read"
    /\ \E dbOk \in BOOLEAN :
        IF ~dbOk
        THEN Respond(r, Response(500, "internal", "none", DbError))
        ELSE IF AlreadyProcessed(payments, pd[r].transaction_id)
        THEN Respond(r, Response(200, "duplicate",
                 ExistingStatus(payments, pd[r].transaction_id), "none"))
        ELSE /\ pc' = [pc EXCEPT ![r] = "insert"]
             /\ UNCHANGED resp
    /\ lookup' = [lookup EXCEPT ![r] = NoLookup]
    /\ UNCHANGED <<configVars, dateVars, fullSyncVars, slept, req, mirrorVars, syncVars, appKey, now, payments,
                   mappings, webhookLogs, pd, attempt, lastError, uispError,
                   result, called, fwd>>

\* insertPayment resolves or rejects; on success postPaymentToUISP is called
\* and retryWithBackoff makes its first attempt
InsertPayment(r) ==
    /\ pc[r] = "insert"
    /\ \E dbOk \in BOOLEAN :
        IF UniqueViolation(payments, pd[r].transaction_id) \/ ~dbOk
        THEN \* the INSERT rejects: the outer catch answers
             /\ Respond(r, Response(500, "internal", "none",
                    IF UniqueViolation(payments, pd[r].transaction_id)
                    THEN UniqueError ELSE DbError))
             /\ UNCHANGED <<payments, called, fwd, attempt, uispError, mirrorCalls>>
        ELSE /\ payments' = insertPayment(payments, pd[r], r)
             /\ mirrorCalls' = sendPaymentToConvex(mirrorCalls, convexUrl,
                                                   pd[r].transaction_id)
             /\ called' = [called EXCEPT ![r] = TRUE]
             /\ UNCHANGED resp
             /\ IF ~appKey
                THEN /\ CatchUispError(r, NoAppKeyError)
                     /\ UNCHANGED <<fwd, attempt>>
                ELSE /\ attempt' = [attempt EXCEPT ![r] = 0]
                     /\ InvokeFn(r)
                     /\ UNCHANGED uispError
    /\ UNCHANGED <<configVars, dateVars, fullSyncVars, slept, req, lookup, mirror, mirrorSent, syncVars, appKey,
                   now, mappings, webhookLogs, pd, lastError, result>>

\* the POST /payments of the current attempt answers 2xx
AttemptSucceeds(r) ==
    /\ pc[r] = "attempt"
    /\ \E body \in UispBodies :
        /\ result' = [result EXCEPT ![r] = body]
        /\ fwd' = FwdWith(pd[r].transaction_id,
                     [FwdOf(pd[r].transaction_id) EXCEPT !.ok = @ + 1, !.okBody = body,
                                                         !.lastFail = NoError])
    /\ lastError' = [lastError EXCEPT ![r] = NoError]
    /\ pc' = [pc EXCEPT ![r] = "updSuccess"]
    /\ UNCHANGED <<configVars, dateVars, fullSyncVars, slept, req, lookup, mirrorVars, syncVars, appKey, now, payments, mappings, webhookLogs, pd, attempt,
                   uispError, resp, called>>

\* the POST /payments of the current attempt fails (timeout, non-2xx, network)
AttemptFails(r) ==
    /\ pc[r] = "attempt"
    /\ \E error \in ForwardErrors :
        /\ fwd' = FwdWith(pd[r].transaction_id,
                     [FwdOf(pd[r].transaction_id) EXCEPT !.failed = @ + 1,
                                                         !.lastFail = error])
        /\ IF RetryAgain(attempt[r])
           THEN \* onRetry is awaited: updateRetryCount is issued
                /\ lastError' = [lastError EXCEPT ![r] = error]
                /\ pc' = [pc EXCEPT ![r] = "onRetry"]
                /\ UNCHANGED uispError
           ELSE \* the loop ends: throw lastError
                /\ lastError' = [lastError EXCEPT ![r] = NoError]
                /\ CatchUispError(r, error)
    /\ UNCHANGED <<configVars, dateVars, fullSyncVars, slept, req, lookup, mirrorVars, syncVars, appKey, now, payments, mappings, webhookLogs, pd, attempt,
                   result, resp, called>>

\* onRetry's updateRetryCount resolves (sleep follows) or rejects (the
\* rejection leaves retryWithBackoff through its catch block)
OnRetryReturns(r) ==
    /\ pc[r] = "onRetry"
    /\ \E dbOk \in BOOLEAN :
        IF dbOk
        THEN /\ payments' = updateRetryCount(payments, pd[r].transaction_id,
                                             attempt[r] + 1, CURRENT_TIMESTAMP(now))
             \* sleep(delay) is called
             /\ slept' = [slept EXCEPT ![r] = Append(@, Delay(initialDelay, attempt[r]))]
             /\ pc' = [pc EXCEPT ![r] = "sleep"]
             /\ UNCHANGED <<lastError, uispError>>
        ELSE /\ lastError' = [lastError EXCEPT ![r] = NoError]
             /\ CatchUispError(r, DbError)
             /\ UNCHANGED <<payments, slept>>
    /\ UNCHANGED <<configVars, dateVars, fullSyncVars, req, lookup, mirrorVars, syncVars, appKey, now, mappings, webhookLogs, pd, attempt, result, resp,
                   called, fwd>>

\* sleep(delay) ends: the next iteration of the loop calls fn()
SleepEnds(r) ==
    /\ pc[r] = "sleep"
    /\ attempt' = [attempt EXCEPT ![r] = @ + 1]
    /\ InvokeFn(r)
    /\ UNCHANGED <<configVars, dateVars, fullSyncVars, slept, req, lookup, mirrorVars, syncVars, appKey, now, payments, mappings, webhookLogs, pd, lastError,
                   uispError, result, resp, called>>

\* updatePaymentStatus(..., 'success', ...) resolves or rejects
UpdateSuccessReturns(r) ==
    /\ pc[r] = "updSuccess"
    /\ \E dbOk \in BOOLEAN :
        IF dbOk
        THEN /\ payments' = updatePaymentStatus(payments, pd[r].transaction_id,
                                "success", JSONstringify(result[r]), NoError)
             /\ mirrorCalls' = updatePaymentStatusInConvex(mirrorCalls, convexUrl,
                                    pd[r].transaction_id, "success")
             \* syncSingleClient is called, not awaited
             /\ syncTasks' = syncTasks \cup {SyncTask(r, pd[r].client_id)}
             /\ Respond(r, Response(200, "success", "none", "none"))
             /\ UNCHANGED uispError
        ELSE /\ CatchUispError(r, DbError)
             /\ UNCHANGED <<payments, resp, mirrorCalls, syncTasks>>
    /\ result' = [result EXCEPT ![r] = "none"]
    /\ attempt' = [attempt EXCEPT ![r] = 0]
    /\ slept' = [slept EXCEPT ![r] = <<>>]
    /\ UNCHANGED <<configVars, dateVars, fullSyncVars, req, lookup, mirror, mirrorSent, clients, appKey, now,
                   mappings, webhookLogs, pd, lastError, called, fwd>>

\* updatePaymentStatus(..., 'failed', ...) resolves or rejects
UpdateFailedReturns(r) ==
    /\ pc[r] = "updFailed"
    /\ \E dbOk \in BOOLEAN :
        IF dbOk
        THEN /\ payments' = updatePaymentStatus(payments, pd[r].transaction_id,
                                "failed", NullResponse, uispError[r])
             /\ mirrorCalls' = updatePaymentStatusInConvex(mirrorCalls, convexUrl,
                                    pd[r].transaction_id, "failed")
             /\ Respond(r, Response(500, "forward_failed", "none", uispError[r]))
        ELSE /\ Respond(r, Response(500, "internal", "none", DbError))
             /\ UNCHANGED <<payments, mirrorCalls>>
    /\ uispError' = [uispError EXCEPT ![r] = NoError]
    /\ attempt' = [attempt EXCEPT ![r] = 0]
    /\ slept' = [slept EXCEPT ![r] = <<>>]
    /\ UNCHANGED <<configVars, dateVars, fullSyncVars, req, lookup, mirror, mirrorSent, syncVars, appKey, now,
                   mappings, webhookLogs, pd, lastError, result, called, fwd>>

\* a millisecond passes
Tick ==
    /\ now < MaxTime
    /\ now' = now + 1
    /\ UNCHANGED <<configVars, dateVars, fullSyncVars, slept, req, lookup, mirrorVars, syncVars, appKey, payments, mappings, webhookLogs, pc, pd, attempt,
                   lastError, uispError, result, resp, called, fwd>>

(* ----------------------- background client sync ----------------------- *)
\* syncSingleClient settles: it resolves after getUISPClient and upsertClient,
\* and then updateClientLastPayment is issued; a rejection is logged
SyncSingleClientReturns(t) ==
    /\ t \in syncTasks
    /\ t.stage = "sync"
    /\ \E ok \in BOOLEAN :
        IF ok
        THEN /\ clients' = upsertClient(clients, t.client)
             /\ syncTasks' = (syncTasks \ {t}) \cup {[t EXCEPT !.stage = "lastPayment"]}
        ELSE /\ syncTasks' = syncTasks \ {t}
             /\ UNCHANGED clients
    /\ UNCHANGED <<configVars, dateVars, fullSyncVars, slept, req, lookup, mirrorVars, appKey, now, payments,
                   mappings, webhookLogs, pc, pd, attempt, lastError, uispError,
                   result, resp, called, fwd>>

\* updateClientLastPayment settles; a rejection is logged
UpdateClientLastPaymentReturns(t) ==
    /\ t \in syncTasks
    /\ t.stage = "lastPayment"
    /\ \E dbOk \in BOOLEAN :
        clients' = IF dbOk
                   THEN updateClientLastPayment(clients, t.client, CURRENT_TIMESTAMP(now))
                   ELSE clients
    /\ syncTasks' = syncTasks \ {t}
    /\ UNCHANGED <<configVars, dateVars, fullSyncVars, slept, req, lookup, mirrorVars, appKey, now, payments,
                   mappings, webhookLogs, pc, pd, attempt, lastError, uispError,
                   result, resp, called, fwd>>

(* ------------------------------ the mirror ---------------------------- *)
SentOf(tid) == IF tid \in DOMAIN mirrorSent THEN mirrorSent[tid] ELSE NoSent
SentWith(tid, v) ==
    [t \in DOMAIN mirrorSent \cup {tid} |-> IF t = tid THEN v ELSE mirrorSent[t]]

\* the mirror's table after a mutation that writes status for tid
MirrorWith(tid, status) ==
    [t \in DOMAIN mirror \cup {tid} |-> IF t = tid THEN status ELSE mirror[t]]

\* mutant: a call that failed stays in flight and is sent again
RetryMirrorFailure(calls, c) == calls

\* a call that failed is logged and dropped: the component does not retry
AfterMirrorFailure(calls, c) == calls \ {c}

\* the payments:insertPayment mutation of sendPaymentToConvex settles
MirrorInsertSettles(c, outcomes) ==
    /\ c \in mirrorCalls
    /\ c.op = "insert"
    /\ mirrorSent' = SentWith(c.tid, [SentOf(c.tid) EXCEPT !.insert = @ + 1])
    /\ \E ok \in outcomes :
        IF ok
        THEN /\ mirror' = MirrorWith(c.tid, c.status)
             /\ mirrorCalls' = mirrorCalls \ {c}
        ELSE /\ mirrorCalls' = AfterMirrorFailure(mirrorCalls, c)
             /\ UNCHANGED mirror
    /\ UNCHANGED <<configVars, dateVars, fullSyncVars, slept, req, lookup, syncVars, appKey, now, payments,
                   mappings, webhookLogs, pc, pd, attempt, lastError, uispError,
                   result, resp, called, fwd>>

\* the call settles either way
MirrorInsertReturns(c) == MirrorInsertSettles(c, BOOLEAN)

\* the payments:getPaymentByTransactionId query of updatePaymentStatusInConvex
\* settles: the mutation follows if it returned the payment
MirrorQuerySettles(c, outcomes) ==
    /\ c \in mirrorCalls
    /\ c.op = "update" /\ c.stage = "query"
    /\ mirrorSent' = SentWith(c.tid, [SentOf(c.tid) EXCEPT !.query = @ + 1])
    /\ \E ok \in outcomes :
        IF ~ok
        THEN mirrorCalls' = AfterMirrorFailure(mirrorCalls, c)
        ELSE IF c.tid \notin DOMAIN mirror
        THEN \* 'Payment not found': the status update is given up
             mirrorCalls' = mirrorCalls \ {c}
        ELSE mirrorCalls' = (mirrorCalls \ {c}) \cup {[c EXCEPT !.stage = "mutation"]}
    /\ UNCHANGED <<configVars, dateVars, fullSyncVars, slept, req, lookup, mirror, syncVars, appKey, now, payments,
                   mappings, webhookLogs, pc, pd, attempt, lastError, uispError,
                   result, resp, called, fwd>>

\* the call settles either way
MirrorQueryReturns(c) == MirrorQuerySettles(c, BOOLEAN)

\* the payments:updatePaymentStatus mutation settles
MirrorUpdateSettles(c, outcomes) ==
    /\ c \in mirrorCalls
    /\ c.op = "update" /\ c.stage = "mutation"
    /\ mirrorSent' = SentWith(c.tid, [SentOf(c.tid) EXCEPT !.update = @ + 1])
    /\ \E ok \in outcomes :
        IF ok
        THEN /\ mirror' = MirrorWith(c.tid, c.status)
             /\ mirrorCalls' = mirrorCalls \ {c}
        ELSE /\ mirrorCalls' = AfterMirrorFailure(mirrorCalls, c)
             /\ UNCHANGED mirror
    /\ UNCHANGED <<configVars, dateVars, fullSyncVars, slept, req, lookup, syncVars, appKey, now, payments,
                   mappings, webhookLogs, pc, pd, attempt, lastError, uispError,
                   result, resp, called, fwd>>

\* the call settles either way
MirrorUpdateReturns(c) == MirrorUpdateSettles(c, BOOLEAN)

(* ---------------------------- POST /mappings --------------------------- *)
\* the mappings an operator adds
MappingInputs == {<<"404", 4004>>, <<"W2123", 1211>>}

\* POST /api/mappings: the mapping is added or replaced
UpsertCustomerMapping ==
    /\ \E m \in MappingInputs :
        /\ getUispClientId(mappings, m[1]) # m[2]
        /\ mappings' = upsertCustomerMapping(mappings, m[1], m[2])
    /\ UNCHANGED <<configVars, dateVars, fullSyncVars, slept, req, lookup, mirrorVars, syncVars, appKey, now,
                   payments, webhookLogs, pc, pd, attempt, lastError, uispError,
                   result, resp, called, fwd>>

(* --------------------------- full client sync -------------------------- *)
limit == 100

\* the run's locals; requests and writes are history: the offsets requested
\* from the target and the statuses written with updateSyncLog
NoSync ==
    [pc |-> "idle", offset |-> 0, fetched |-> 0, i |-> 0, syncedCount |-> 0,
     failedCount |-> 0, requests |-> <<>>, writes |-> <<>>, outcome |-> "none"]

NoSyncLog ==
    [status |-> "none", total_records |-> 0, synced_records |-> 0,
     failed_records |-> 0, completed_at |-> NoTime]

\* INSERT INTO sync_logs (sync_type, total_records) VALUES (?, 0): the other
\* columns take their defaults
createSyncLog ==
    [status |-> "in_progress", total_records |-> 0, synced_records |-> 0,
     failed_records |-> 0, completed_at |-> NoTime]

\* UPDATE sync_logs SET status, synced_records, failed_records,
\* error_message, completed_at = CURRENT_TIMESTAMP WHERE id = ?
updateSyncLog(row, status, syncedRecords, failedRecords, ts) ==
    [row EXCEPT !.status = status, !.synced_records = syncedRecords,
                !.failed_records = failedRecords, !.completed_at = ts]

Max(a, b) == IF a >= b THEN a ELSE b

\* GET /clients?limit&offset: the number of records of the page at offset
\* of a collection of size records (the clients offset+1 .. offset+n)
PageLength(size, offset) == Min(limit, Max(0, size - offset))

\* mutant: only an empty page ends the loop
HasMoreUntilEmpty(n) == n # 0

\* hasMore after a page of n records
HasMore(n) == n # 0 /\ ~(n < limit)

\* the variables a full sync leaves alone
outsideFullSync ==
    <<configVars, dateVars, mirrorVars, syncTasks, appKey, now, payments,
      mappings, webhookLogs, pc, pd, attempt, lastError, uispError, result,
      resp, called, fwd, req, lookup, slept, uispClients, unstorable>>

\* syncAllClients is called: createSyncLog is issued
StartSync ==
    /\ sync.pc = "idle"
    /\ sync' = [sync EXCEPT !.pc = "create"]
    /\ UNCHANGED <<outsideFullSync, clients, syncLog>>

\* the catch block with a syncLogId: updateSyncLog(..., 'failed', 0, 0) is issued
CatchSyncError == sync' = [sync EXCEPT !.pc = "fail"]

\* createSyncLog settles: the first page is requested, or the run throws
CreateSyncLogReturns ==
    /\ sync.pc = "create"
    /\ \E dbOk \in BOOLEAN :
        IF dbOk
        THEN /\ syncLog' = createSyncLog
             /\ sync' = [sync EXCEPT !.pc = "fetch", !.requests = <<0>>]
        ELSE \* syncLogId is undefined: the error is rethrown
             /\ sync' = [sync EXCEPT !.pc = "done", !.outcome = "threw"]
             /\ UNCHANGED syncLog
    /\ UNCHANGED <<outsideFullSync, clients>>

\* fetchUISPClients settles: the next page is requested, or the loop ends
\* and the first updateSyncLog is issued
FetchReturns ==
    /\ sync.pc = "fetch"
    /\ \E netOk \in BOOLEAN :
        IF ~appKey \/ ~netOk
        THEN CatchSyncError
        ELSE LET n == PageLength(uispClients, sync.offset) IN
             IF n = 0
             THEN sync' = [sync EXCEPT !.pc = "mark"]
             ELSE IF HasMore(n)
             THEN sync' = [sync EXCEPT !.fetched = @ + n, !.offset = @ + limit,
                                       !.requests = Append(@, sync.offset + limit)]
             ELSE sync' = [sync EXCEPT !.fetched = @ + n, !.offset = @ + limit,
                                       !.pc = "mark"]
    /\ UNCHANGED <<outsideFullSync, clients, syncLog>>

\* the loop over allClients reaches client i: its upsert is issued, or the
\* loop has ended and the final updateSyncLog is issued
UpsertOrFinalize(i) == IF i <= sync.fetched THEN "upsert" ELSE "finalize"

\* updateSyncLog(syncLogId, 'in_progress', 0, 0) settles
MarkInProgressReturns ==
    /\ sync.pc = "mark"
    /\ \E dbOk \in BOOLEAN :
        IF dbOk
        THEN /\ syncLog' = updateSyncLog(syncLog, "in_progress", 0, 0,
                                         CURRENT_TIMESTAMP(now))
             /\ sync' = [sync EXCEPT !.pc = UpsertOrFinalize(1), !.i = 1,
                                     !.writes = Append(@, "in_progress")]
        ELSE /\ CatchSyncError
             /\ UNCHANGED syncLog
    /\ UNCHANGED <<outsideFullSync, clients>>

\* upsertClient of client i settles: it is counted as synced or as failed
UpsertReturns ==
    /\ sync.pc = "upsert"
    /\ IF sync.i \in unstorable
       THEN /\ sync' = [sync EXCEPT !.failedCount = @ + 1, !.i = @ + 1,
                                    !.pc = UpsertOrFinalize(sync.i + 1)]
            /\ UNCHANGED clients
       ELSE /\ clients' = upsertClient(clients, sync.i)
            /\ sync' = [sync EXCEPT !.syncedCount = @ + 1, !.i = @ + 1,
                                    !.pc = UpsertOrFinalize(sync.i + 1)]
    /\ UNCHANGED <<outsideFullSync, syncLog>>

\* updateSyncLog(syncLogId, 'completed', syncedCount, failedCount, ...) settles
FinalizeReturns ==
    /\ sync.pc = "finalize"
    /\ \E dbOk \in BOOLEAN :
        IF dbOk
        THEN /\ syncLog' = updateSyncLog(syncLog, "completed", sync.syncedCount,
                                         sync.failedCount, CURRENT_TIMESTAMP(now))
             /\ sync' = [sync EXCEPT !.pc = "done", !.outcome = "returned",
                                     !.writes = Append(@, "completed")]
        ELSE /\ CatchSyncError
             /\ UNCHANGED syncLog
    /\ UNCHANGED <<outsideFullSync, clients>>

\* the catch block's updateSyncLog(syncLogId, 'failed', 0, 0, message)
\* settles; the error is rethrown either way
FailedWriteReturns ==
    /\ sync.pc = "fail"
    /\ \E dbOk \in BOOLEAN :
        IF dbOk
        THEN /\ syncLog' = updateSyncLog(syncLog, "failed", 0, 0, CURRENT_TIMESTAMP(now))
             /\ sync' = [sync EXCEPT !.pc = "done", !.outcome = "threw",
                                     !.writes = Append(@, "failed")]
        ELSE /\ sync' = [sync EXCEPT !.pc = "done", !.outcome = "threw"]
             /\ UNCHANGED syncLog
    /\ UNCHANGED <<outsideFullSync, clients>>

(* ------------------------- providerPaymentTime ------------------------- *)
\* A Date is the instant it denotes: whole hours since 2025-12-14T00:00:00Z
\* and the minute of the hour.
FirstDay == 14
Instants == [hour : 0..71, minute : {0, 59}]
NoInstant == [hour |-> -1, minute |-> 0]

getUTCFullYear(date) == 2025
getUTCMonth(date) == 11
getUTCDate(date) == FirstDay + date.hour \div 24
getUTCHours(date) == date.hour % 24
getUTCMinutes(date) == date.minute

\* String(n).padStart(2, '0') for n below 100: the two digits
padStart2(n) == <<n \div 10, n % 10>>

NoFormatted ==
    [year |-> 0, month |-> <<0, 0>>, day |-> <<0, 0>>, hours |-> <<0, 0>>,
     minutes |-> <<0, 0>>, offset |-> "none"]

\* `${year}-${month}-${day}T${hours}:${minutes}:${seconds}+03:00`
formatUispDateTime(date) ==
    [year |-> getUTCFullYear(date),
     month |-> padStart2(getUTCMonth(date) + 1),
     day |-> padStart2(getUTCDate(date)),
     hours |-> padStart2(getUTCHours(date) + 3),
     minutes |-> padStart2(getUTCMinutes(date)),
     offset |-> "+03:00"]

\* postPaymentToUISP builds uispPaymentData
FormatUispDateTime ==
    /\ sourceTime # NoInstant
    /\ providerPaymentTime = NoFormatted
    /\ providerPaymentTime' = formatUispDateTime(sourceTime)
    /\ UNCHANGED <<configVars, fullSyncVars, mirrorVars, syncVars, sourceTime,
                   appKey, now, payments, mappings, webhookLogs, pc, pd, attempt,
                   lastError, uispError, result, resp, called, fwd, req, lookup,
                   slept>>

(* ------------------------------- Init --------------------------------- *)
\* no payment has been sent to the target and no full sync has run
DateIdle ==
    /\ sourceTime = NoInstant
    /\ providerPaymentTime = NoFormatted

FullSyncIdle ==
    /\ sync = NoSync
    /\ syncLog = NoSyncLog
    /\ uispClients = 0
    /\ unstorable = {}

\* the webhook pipeline after start: empty tables, no delivery received
PipelineIdle ==
    /\ now = 0
    /\ payments = {}
    /\ mappings = DefaultMappings
    /\ webhookLogs = {}
    /\ pc = [r \in Reqs |-> "idle"]
    /\ pd = [r \in Reqs |-> NoPD]
    /\ attempt = [r \in Reqs |-> 0]
    /\ lastError = [r \in Reqs |-> NoError]
    /\ uispError = [r \in Reqs |-> NoError]
    /\ result = [r \in Reqs |-> "none"]
    /\ resp = [r \in Reqs |-> NoResp]
    /\ called = [r \in Reqs |-> FALSE]
    /\ fwd = [t \in {} |-> NoFwd]
    /\ req = [r \in Reqs |-> NoReq]
    /\ lookup = [r \in Reqs |-> NoLookup]
    /\ mirror = [t \in {} |-> "pending"]
    /\ mirrorCalls = {}
    /\ mirrorSent = [t \in {} |-> NoSent]
    /\ clients = [c \in {} |-> NoTime]
    /\ syncTasks = {}
    /\ slept = [r \in Reqs |-> <<>>]

\* the state after start, but for the configuration
Started == PipelineIdle /\ DateIdle /\ FullSyncIdle

\* no webhook secret and no mirror are configured
Init ==
    /\ appKey \in BOOLEAN
    /\ webhookSecret = FALSE
    /\ convexUrl = FALSE
    /\ initialDelay = DefaultRetryDelayMs
    /\ Started

\* the steps of a delivery after its intake, and the background client sync
Pipeline ==
    \/ \E r \in Reqs : ReadExisting(r)
    \/ \E r \in Reqs : InsertPayment(r)
    \/ \E r \in Reqs : AttemptSucceeds(r)
    \/ \E r \in Reqs : AttemptFails(r)
    \/ \E r \in Reqs : OnRetryReturns(r)
    \/ \E r \in Reqs : SleepEnds(r)
    \/ \E r \in Reqs : UpdateSuccessReturns(r)
    \/ \E r \in Reqs : UpdateFailedReturns(r)
    \/ \E t \in syncTasks : SyncSingleClientReturns(t)
    \/ \E t \in syncTasks : UpdateClientLastPaymentReturns(t)
    \/ Tick

\* concurrent deliveries
Next ==
    \/ \E r \in Reqs : Receive(r)
    \/ Pipeline

Spec == Init /\ [][Next]_vars

(* ----------------------- payments of any time ---------------------- *)
\* a payment of any source time is about to be posted
InitFormat ==
    /\ appKey = TRUE
    /\ webhookSecret = FALSE
    /\ convexUrl = FALSE
    /\ initialDelay = DefaultRetryDelayMs
    /\ PipelineIdle
    /\ FullSyncIdle
    /\ sourceTime \in Instants
    /\ providerPaymentTime = NoFormatted

NextFormat == FormatUispDateTime

FormatSpec == InitFormat /\ [][NextFormat]_vars

(* ------------------------- a full client sync -------------------------- *)
\* sizes of the target's collection: empty, below, at and above one page,
\* and a whole number of pages
CollectionSizes == {0, 1, 99, 100, 101, 200}

InitFullSync ==
    /\ appKey \in BOOLEAN
    /\ webhookSecret = FALSE
    /\ convexUrl = FALSE
    /\ initialDelay = DefaultRetryDelayMs
    /\ PipelineIdle
    /\ DateIdle
    /\ sync = NoSync
    /\ syncLog = NoSyncLog
    /\ uispClients \in CollectionSizes
    /\ unstorable \in SUBSET {1, 100, 101}

NextFullSync ==
    \/ StartSync
    \/ CreateSyncLogReturns
    \/ FetchReturns
    \/ MarkInProgressReturns
    \/ UpsertReturns
    \/ FinalizeReturns
    \/ FailedWriteReturns

FullSyncSpec == InitFullSync /\ [][NextFullSync]_vars

\* every awaited call of the run settles
FullSyncLiveSpec == FullSyncSpec /\ WF_vars(NextFullSync)

(* ------------------------------ scheduling ----------------------------- *)
\* the event loop runs every continuation whose awaited call has settled,
\* and every call that was issued settles
Fairness ==
    /\ \A r \in Reqs :
        /\ WF_vars(ReadExisting(r))
        /\ WF_vars(InsertPayment(r))
        /\ WF_vars(AttemptSucceeds(r) \/ AttemptFails(r))
        /\ WF_vars(OnRetryReturns(r))
        /\ WF_vars(SleepEnds(r))
        /\ WF_vars(UpdateSuccessReturns(r))
        /\ WF_vars(UpdateFailedReturns(r))
    /\ WF_vars(\E t \in syncTasks : SyncSingleClientReturns(t))
    /\ WF_vars(\E t \in syncTasks : UpdateClientLastPaymentReturns(t))

(* ------------------- deliveries one after the other -------------------- *)
\* no delivery is being handled
NoneInFlight == \A q \in Reqs : pc[q] \in {"idle", "done"}

\* the bodies that exercise the resolver: every customer, as a string and as
\* a number, with an amount and the caller's transaction id
ResolveBodies ==
    {b \in Bodies : b.shape = "flat" /\ b.idKey = "customer_id" /\ b.cust # NoCust
                    /\ b.amount = 500 /\ b.transaction_id # NoTid}

ReceiveResolve(r) ==
    /\ NoneInFlight
    /\ ReceiveFrom(r, ResolveBodies, {"compact"}, {NoSignature})

\* deliveries for every customer, and an operator who adds mappings
NextResolve ==
    \/ \E r \in Reqs : ReceiveResolve(r)
    \/ UpsertCustomerMapping
    \/ Pipeline

ResolveSpec == Init /\ [][NextResolve]_vars

(* ------------------------- signed deliveries --------------------------- *)
\* a webhook secret may be configured
InitSigned ==
    /\ appKey = TRUE
    /\ webhookSecret \in BOOLEAN
    /\ convexUrl = FALSE
    /\ initialDelay = DefaultRetryDelayMs
    /\ Started

\* no delivery has been received
NoneReceived == \A q \in Reqs : pc[q] = "idle"

\* the one delivery, sent in either serialization with any signature header
ReceiveSigned(r) ==
    /\ NoneReceived
    /\ ReceiveFrom(r, CoreBodies, RawFormats, Signatures)

NextSigned ==
    \/ \E r \in Reqs : ReceiveSigned(r)
    \/ Pipeline

SignedSpec == InitSigned /\ [][NextSigned]_vars

(* ------------------------ mirrored deliveries -------------------------- *)
\* payments of customer W2123
MirrorBodies ==
    {b \in CoreBodies : b.cust = "W2123" /\ b.amount # NoAmount}

\* a mirror may be configured
InitMirror ==
    /\ appKey = TRUE
    /\ webhookSecret = FALSE
    /\ convexUrl \in BOOLEAN
    /\ initialDelay = DefaultRetryDelayMs
    /\ Started

\* the one delivery
ReceiveMirrored(r) ==
    /\ NoneReceived
    /\ ReceiveFrom(r, MirrorBodies, {"compact"}, {NoSignature})

NextMirror ==
    \/ \E r \in Reqs : ReceiveMirrored(r)
    \/ \E c \in mirrorCalls : MirrorInsertReturns(c)
    \/ \E c \in mirrorCalls : MirrorQueryReturns(c)
    \/ \E c \in mirrorCalls : MirrorUpdateReturns(c)
    \/ Pipeline

MirrorSpec == InitMirror /\ [][NextMirror]_vars

\* the mirror is configured and reachable: every call to it succeeds, and
\* every call that was issued settles
InitMirrorUp ==
    /\ appKey = TRUE
    /\ webhookSecret = FALSE
    /\ convexUrl = TRUE
    /\ initialDelay = DefaultRetryDelayMs
    /\ Started

NextMirrorUp ==
    \/ \E r \in Reqs : ReceiveMirrored(r)
    \/ \E c \in mirrorCalls : MirrorInsertSettles(c, {TRUE})
    \/ \E c \in mirrorCalls : MirrorQuerySettles(c, {TRUE})
    \/ \E c \in mirrorCalls : MirrorUpdateSettles(c, {TRUE})
    \/ Pipeline

MirrorUpSpec ==
    /\ InitMirrorUp /\ [][NextMirrorUp]_vars
    /\ Fairness
    /\ WF_vars(\E c \in mirrorCalls : MirrorInsertSettles(c, {TRUE}))
    /\ WF_vars(\E c \in mirrorCalls : MirrorQuerySettles(c, {TRUE}))
    /\ WF_vars(\E c \in mirrorCalls : MirrorUpdateSettles(c, {TRUE}))

(* --------------------------- every payload ----------------------------- *)
\* the one delivery: any body of the three shapes
ReceiveAny(r) ==
    /\ NoneReceived
    /\ ReceiveFrom(r, Bodies, {"compact", "empty"}, {NoSignature})

NextIntake ==
    \/ \E r \in Reqs : ReceiveAny(r)
    \/ Pipeline

IntakeSpec == Init /\ [][NextIntake]_vars

(* ------------------------ configured retry delay ----------------------- *)
\* values of RETRY_DELAY_MS: unset (the default applies), small, and large
\* enough for the cap to apply
RetryDelays == {DefaultRetryDelayMs, 250, 20000}

InitRetry ==
    /\ appKey = TRUE
    /\ webhookSecret = FALSE
    /\ convexUrl = FALSE
    /\ initialDelay \in RetryDelays
    /\ Started

NextRetry ==
    \/ \E r \in Reqs : ReceiveMirrored(r)
    \/ Pipeline

RetrySpec == InitRetry /\ [][NextRetry]_vars

(* --------------------------- fair retry run ---------------------------- *)
LiveSpec == InitRetry /\ [][NextRetry]_vars /\ Fairness

(* ====================================================================== *)
(*                               Properties                               *)
(* ====================================================================== *)
TypeOK ==
    /\ appKey \in BOOLEAN
    /\ now \in Times
    /\ webhookLogs \subseteq [req : Reqs, validated : BOOLEAN]
    /\ webhookSecret \in BOOLEAN /\ convexUrl \in BOOLEAN
    /\ initialDelay \in Nat \ {0}
    /\ slept \in [Reqs -> Seq(Nat)]
    /\ \A r \in Reqs : resp[r].missingFields \subseteq {"client_id", "amount"}
    /\ \A c \in mirrorCalls : c.op \in {"insert", "update"}
    /\ pc \in [Reqs -> {"idle", "read", "insert", "attempt", "onRetry", "sleep",
                        "updSuccess", "updFailed", "done"}]
    /\ attempt \in [Reqs -> 0..maxRetries]
    /\ called \in [Reqs -> BOOLEAN]
    /\ \A row \in payments : row.status \in {"pending", "success", "failed"}

\* the transaction ids the deliveries carry or were given
TidsSeen == {pd[r].transaction_id : r \in Reqs} \ {NoTid}
\* the deliveries of a transaction id
DeliveriesOf(tid) == {r \in Reqs : pd[r].transaction_id = tid}
\* the store has answered delivery r about its transaction id: its row was
\* inserted, a row was read, or the INSERT hit the uniqueness constraint
StoreAnswered(r) ==
    \/ called[r]
    \/ pc[r] = "done" /\ resp[r].kind = "duplicate"
    \/ pc[r] = "done" /\ resp[r].message = UniqueError

\* C1: whatever the number, order and interleaving of the deliveries of one
\* transaction_id (two of them may both pass the read before either inserts),
\* the ledger never holds more than one PaymentRecord for it, holds exactly
\* one as soon as the store has answered one of these deliveries, and
\* postPaymentToUISP is invoked for at most one of them.
C1_OneRecordOneForward ==
    \A tid \in TidsSeen :
        /\ Cardinality(RowsOf(payments, tid)) <= 1
        /\ Cardinality({r \in DeliveriesOf(tid) : called[r]}) <= 1
        /\ (\E r \in DeliveriesOf(tid) : StoreAnswered(r))
              => Cardinality(RowsOf(payments, tid)) = 1

\* two deliveries of one transaction id both passed the read; the second
\* INSERT was refused and only the first delivery forwarded
C1_Witness ==
    \E r1, r2 \in Reqs :
        /\ r1 # r2
        /\ pd[r1].transaction_id = pd[r2].transaction_id
        /\ called[r1] /\ ~called[r2]
        /\ pc[r2] = "done" /\ resp[r2].message = UniqueError
        /\ Cardinality(RowsOf(payments, pd[r1].transaction_id)) = 1

\* C2: a delivery whose (caller-supplied) transaction_id is already in the
\* ledger is answered with HTTP 200 and the existing record's status, when
\* the read returns the record and also when the duplicate is detected only
\* by the INSERT failing on the uniqueness constraint.
C2_DuplicateAnswered200 ==
    [][\A r \in Reqs :
        LET tid == pd[r].transaction_id
            answeredAsDuplicate ==
                /\ resp'[r].code = 200
                /\ resp'[r].kind = "duplicate"
                /\ \E row \in RowsOf(payments, tid) : resp'[r].status = row.status
        IN  ~pd[r].synthesized =>
            /\ (pc[r] = "read" /\ pc'[r] = "done" /\ RowsOf(payments, tid) # {}
                /\ resp'[r].message # DbError) => answeredAsDuplicate
            /\ (pc[r] = "insert" /\ pc'[r] = "done" /\ RowsOf(payments, tid) # {})
                => answeredAsDuplicate]_vars

\* C3 (as stated): the status a duplicate's response reports is the first
\* delivery's final status, success or failed.
C3_ReportsFinalStatus ==
    \A r \in Reqs :
        (pc[r] = "done" /\ resp[r].kind = "duplicate")
            => resp[r].status \in {"success", "failed"}

\* C3 (amended): the status a duplicate's response reports is the status the
\* existing record has when the idempotency read returns it: pending while
\* the first delivery is in flight, its final status afterwards; a terminal
\* status once reported stays the record's status.
C3_ReportsStatusAtRead ==
    [][\A r \in Reqs :
        LET tid == pd[r].transaction_id IN
        /\ (pc[r] = "read" /\ pc'[r] = "done" /\ resp'[r].kind = "duplicate")
            => /\ resp'[r].code = 200
               /\ \E row \in RowsOf(payments, tid) : resp'[r].status = row.status
        /\ (pc[r] = "done" /\ resp[r].kind = "duplicate"
            /\ resp[r].status \in {"success", "failed"})
            => \A row \in RowsOf(payments', tid) : row.status = resp[r].status]_vars

\* a duplicate was answered with the failed status of the first delivery
C3_Witness ==
    \E r \in Reqs :
        /\ pc[r] = "done" /\ resp[r].kind = "duplicate" /\ resp[r].status = "failed"
        /\ \E row \in RowsOf(payments, pd[r].transaction_id) :
              row.id # r /\ pc[row.id] = "done"

\* C4: a record's status changes only pending -> success or pending ->
\* failed; every record is created pending, no record is removed and no
\* terminal record changes status.
C4_StateMachine ==
    [][/\ \A old \in payments : \E row \in payments' : row.id = old.id
       /\ \A row \in payments' :
            IF \E old \in payments : old.id = row.id
            THEN \A old \in payments : old.id = row.id =>
                    \/ row.status = old.status
                    \/ old.status = "pending" /\ row.status \in {"success", "failed"}
            ELSE row.status = "pending"]_vars

\* one record went pending -> success and another pending -> failed
C4_Witness ==
    \E a, b \in payments : a.status = "success" /\ b.status = "failed"

\* C5: a record has status success only if a forward of its transaction_id
\* was answered with success by the target, and its uisp_response is the
\* serialized body of that answer.
C5_SuccessOnlyAfterForward ==
    \A row \in payments :
        row.status = "success" =>
            /\ FwdOf(row.transaction_id).ok >= 1
            /\ row.uisp_response = JSONstringify(FwdOf(row.transaction_id).okBody)
            /\ row.error_message = NoError

\* a record is success after a forward that needed a retry
C5_Witness ==
    \E row \in payments :
        /\ row.status = "success"
        /\ FwdOf(row.transaction_id).failed >= 1
        /\ row.uisp_response = <<"json", "B2">>

\* C6: a record has status failed only if the Forwarder exhausted its retry
\* budget for it (maxRetries + 1 forward attempts were made and all failed),
\* and its error_message is the message of the last failed attempt.
C6_FailedOnlyAfterExhaustion ==
    \A row \in payments :
        row.status = "failed" =>
            /\ FwdOf(row.transaction_id).n = maxRetries + 1
            /\ FwdOf(row.transaction_id).failed = maxRetries + 1
            /\ row.error_message = FwdOf(row.transaction_id).lastFail

\* retryWithBackoff has thrown without any of its calls of fn() succeeding
RetryThrew(r) ==
    /\ pc[r] = "updFailed"
    /\ FwdOf(pd[r].transaction_id).n >= 1
    /\ FwdOf(pd[r].transaction_id).ok = 0

\* C7: retryWithBackoff calls the operation exactly k times when the k-th
\* call is the first to succeed and returns that result; it calls it exactly
\* maxRetries + 1 times when every call fails and then re-raises the last
\* error, and the payment ends failed with that message.
C7_RetryBudget ==
    \A r \in Reqs :
        LET f == FwdOf(pd[r].transaction_id) IN
        /\ pc[r] = "updSuccess" /\ uispError[r] = NoError =>
              /\ f.n = attempt[r] + 1 /\ f.failed = attempt[r] /\ f.ok = 1
              /\ result[r] = f.okBody
        /\ RetryThrew(r) =>
              /\ f.n = maxRetries + 1 /\ f.failed = maxRetries + 1
              /\ uispError[r] = f.lastFail
        /\ \A row \in RowsOf(payments, pd[r].transaction_id) :
              (row.status = "failed" /\ f.n >= 1 /\ f.ok = 0) =>
                  /\ f.n = maxRetries + 1
                  /\ row.error_message = f.lastFail

\* C8: a failure of the onRetry observer does not abort the retry loop: when
\* the observer returns, resolved or rejected, the loop goes on to sleep and
\* to the remaining attempts.
C8_ObserverFailureDoesNotAbort ==
    [][\A r \in Reqs :
        (pc[r] = "onRetry" /\ pc'[r] # "onRetry") =>
            /\ pc'[r] = "sleep"
            /\ uispError'[r] = uispError[r]]_vars

\* C9: per transaction_id there is at most one successful forward, and the
\* successful attempt is the last attempt made for that id: no attempt is in
\* flight or made after it, by a retry or by another delivery.
C9_AtMostOneSuccessfulForward ==
    \A tid \in DOMAIN fwd :
        /\ fwd[tid].ok <= 1
        /\ fwd[tid].ok = 1 => fwd[tid].n = fwd[tid].failed + 1

\* a forward succeeded after a failed attempt and a later delivery of the
\* same transaction id was answered without forwarding
C9_Witness ==
    \E tid \in DOMAIN fwd :
        /\ fwd[tid].ok = 1 /\ fwd[tid].failed >= 1
        /\ \E r \in DeliveriesOf(tid) :
              pc[r] = "done" /\ resp[r].kind = "duplicate" /\ ~called[r]

\* C10: a delivery with a resolvable customer and an amount is answered with
\* HTTP 200 only if the ledger holds a record of its payment: a record with
\* its transaction_id and, when the id was synthesized (the delivery's only
\* identity is its content), with its client and amount.
C10_NoPaymentLost ==
    \A r \in Reqs :
        (pc[r] = "done" /\ resp[r].code = 200 /\ pd[r].transaction_id # NoTid) =>
            \E row \in RowsOf(payments, pd[r].transaction_id) :
                pd[r].synthesized =>
                    /\ row.client_id = pd[r].client_id
                    /\ row.amount = pd[r].amount

\* delivery r's forward exhausted the retry budget: maxRetries + 1 attempts
\* were made for its payment and every one of them failed
Exhausted(r) ==
    /\ called[r]
    /\ FwdOf(pd[r].transaction_id).n = maxRetries + 1
    /\ FwdOf(pd[r].transaction_id).failed = maxRetries + 1

CallsOf(r) == {lookup[r].calls[i] : i \in DOMAIN lookup[r].calls}
\* a call of delivery r that produced a target client
Produced(c) == c.callee # "directory" /\ c.outcome = "found"
\* strategy 1 resolved the customer of delivery r
Strategy1Resolved(r) == Call(1, "search", "found") \in CallsOf(r)

\* C12: when strategy 1 resolves the identifier, the payment's client_id is
\* the client strategy 1 found (the target client whose userIdent is the
\* directory's login), whatever the mapping table holds for the identifier,
\* and that is the client_id of the record the delivery inserts.
C12_Strategy1OverMapping ==
    /\ \A r \in Reqs :
        (pc[r] = "read" /\ Strategy1Resolved(r)) =>
            /\ pd[r].client_id = UispClientByUserIdent(SplynxLogin(req[r].body.cust))
            /\ lookup[r].method = "splynx_api"
    /\ \A row \in payments : row.client_id = pd[row.id].client_id

\* strategy 1 resolved an identifier that the mapping table maps to another client
C12_Witness ==
    \E r \in Reqs :
        /\ pc[r] = "read" /\ Strategy1Resolved(r)
        /\ req[r].body.cust \in DOMAIN mappings
        /\ mappings[req[r].body.cust] # pd[r].client_id
        /\ pd[r].client_id = 3003

\* C13: the strategies run in the order directory lookup, direct match,
\* mapping table; a call that produced a client is the last call made, so a
\* strategy runs only if every earlier one produced nothing, and the lookup
\* method is the strategy of the call that produced the client.
C13_StrategiesInOrder ==
    \A r \in Reqs :
        LET calls == lookup[r].calls IN
        /\ \A i, j \in DOMAIN calls :
              i < j => /\ calls[i].strategy <= calls[j].strategy
                       /\ ~Produced(calls[i])
                       /\ calls[i].callee = "mapping" => FALSE
        /\ \A i \in DOMAIN calls :
              Produced(calls[i]) =>
                  lookup[r].method = CASE calls[i].strategy = 1 -> "splynx_api"
                                       [] calls[i].strategy = 2 -> "direct_userIdent"
                                       [] OTHER -> "mapping_table"
        /\ (\A i \in DOMAIN calls : ~Produced(calls[i])) =>
              lookup[r].method \in {"none", "unknown"}

\* strategy 1 resolved an identifier that starts with W and is in the mapping
\* table: neither the direct search nor the mapping table was consulted
C13_Witness ==
    \E r \in Reqs :
        /\ lookup[r].calls = <<Call(1, "directory", "found"), Call(1, "search", "found")>>
        /\ StartsWithW(req[r].body.cust)
        /\ req[r].body.cust \in DOMAIN mappings

\* every strategy of delivery r ran and none produced a client
NoStrategyResolved(r) ==
    /\ Call(3, "mapping", "none") \in CallsOf(r)
    /\ \A c \in CallsOf(r) : ~Produced(c)

\* C14: when no strategy produces a client the webhook is answered 400
\* 'Customer not found' with the identifier received and the login the
\* directory returned (the identifier itself when it returned none); no
\* record is inserted and the Forwarder is not invoked.  No other delivery
\* gets that answer.
C14_CustomerNotFound ==
    \A r \in Reqs :
        /\ (pc[r] = "done" /\ NoStrategyResolved(r)) =>
              /\ resp[r].code = 400 /\ resp[r].kind = "customer_not_found"
              /\ resp[r].splynxCustomerId = req[r].body.cust
              /\ resp[r].customerLogin =
                    IF Call(1, "directory", "found") \in CallsOf(r)
                    THEN SplynxLogin(req[r].body.cust) ELSE req[r].body.cust
              /\ ~called[r]
              /\ pd[r] = NoPD
              /\ \A row \in payments : row.id # r
        /\ (pc[r] = "done" /\ resp[r].kind = "customer_not_found")
              => NoStrategyResolved(r)

\* a delivery was answered 'Customer not found' with the login the directory
\* returned for its customer
C14_Witness ==
    \E r \in Reqs :
        /\ pc[r] = "done" /\ resp[r].kind = "customer_not_found"
        /\ resp[r].splynxCustomerId = "404" /\ resp[r].customerLogin = "nobody"
        /\ Len(lookup[r].calls) = 3

\* delivery r2 repeats the webhook of delivery r1, which was answered
\* 'Customer not found', and no delivery before r2 was accepted with its
\* transaction id
Redelivered(r1, r2) ==
    /\ r1 < r2
    /\ pc[r1] = "done" /\ resp[r1].kind = "customer_not_found"
    /\ pc[r2] # "idle" /\ req[r2].body = req[r1].body
    /\ \A row \in RowsOf(payments, req[r2].body.transaction_id) : row.id >= r2

C16_StrategyFailureIsCaught ==
    \A r \in Reqs :
        (/\ pc[r] = "done"
         /\ req[r].body.idType = "string"
         /\ \E c \in CallsOf(r) : c.outcome = "throws")
            => resp[r].kind # "internal"

(* ------------------------------ audit log ------------------------------ *)
\* the webhook_logs rows of delivery r
LogEntriesOf(r) == {e \in webhookLogs : e.req = r}
\* business logic has run for delivery r: it was normalized and answered, or
\* resolved, or it reached the ledger or the Forwarder
LogicRan(r) ==
    \/ pc[r] \notin {"idle", "done"}
    \/ pc[r] = "done" /\ resp[r].kind # "internal"
    \/ lookup[r] # NoLookup
    \/ pd[r] # NoPD
    \/ called[r]
    \/ \E row \in payments : row.id = r

C18_AuditFailureNotSurfaced ==
    \A r \in Reqs :
        (pc[r] = "done" /\ LogEntriesOf(r) = {}) => resp[r].code # 500

(* -------------------------- mirror and sync ---------------------------- *)
\* what the caller and the ledger see of the payments
primaryVars == <<payments, mappings, webhookLogs, pc, pd, resp, called, fwd>>

\* C19: a step of the mirror or of the background client sync, succeeding or
\* failing, changes nothing of the ledger's payments and of the responses;
\* without configuration no mirror call is made; and no request is sent to
\* the mirror twice for a transaction id (a failed call is not retried).
C19_MirrorNeverInfluencesPrimary ==
    [][/\ (mirror' # mirror \/ mirrorSent' # mirrorSent \/ clients' # clients
           \/ (syncTasks' # syncTasks /\ pc' = pc))
            => UNCHANGED primaryVars
       /\ ~convexUrl => (mirrorCalls' = {} /\ DOMAIN mirror' = {}
                         /\ DOMAIN mirrorSent' = {})
       /\ \A tid \in DOMAIN mirrorSent' :
            /\ mirrorSent'[tid].insert <= 1
            /\ mirrorSent'[tid].query <= 1
            /\ mirrorSent'[tid].update <= 1]_vars

\* the payment was forwarded and answered 200 although the mirror's insert
\* and the client sync both failed
C19_Witness ==
    \E r \in Reqs :
        /\ convexUrl
        /\ pc[r] = "done" /\ resp[r].kind = "success"
        /\ \E row \in payments : row.id = r /\ row.status = "success"
        /\ SentOf(pd[r].transaction_id).insert = 1
        /\ SentOf(pd[r].transaction_id).query = 1
        /\ pd[r].transaction_id \notin DOMAIN mirror
        /\ mirrorCalls = {} /\ syncTasks = {} /\ DOMAIN clients = {}

(* ------------------------------ signature ------------------------------ *)
\* C20: the validated flag of a delivery's audit record is true only when a
\* secret is configured, a signature header is present and its value is the
\* HMAC of the payload the delivery was sent with.
C20_ValidatedOnlyForSignedPayload ==
    \A e \in webhookLogs :
        e.validated =>
            /\ webhookSecret
            /\ req[e.req].signature # NoSignature
            /\ req[e.req].signature = HMAC(req[e.req].raw)

(* ---------------------------------------------------------------------- *)
(* C21: a request without a body and a request whose body is {} are        *)
(* answered with HTTP 200; no payment row is inserted for them, no         *)
(* resolution strategy is called and postPaymentToUISP is not invoked.     *)
(* ---------------------------------------------------------------------- *)
IsEmptyObject(body) == body.shape = "flat" /\ PaymentKeys(body) = {}

C21_PingAnswered200 ==
    \A r \in Reqs :
        (pc[r] # "idle" /\ IsEmptyObject(req[r].body)) =>
            /\ pc[r] = "done"
            /\ resp[r].code = 200
            /\ \A row \in payments : row.id # r
            /\ lookup[r].calls = <<>>
            /\ ~called[r]

(* ---------------------------------------------------------------------- *)
(* C22: a logged request whose payment object has fields but no customer   *)
(* identifier is answered 400, except that it is answered 200 as a test     *)
(* when, and only when, it has no amount and fewer than 2 fields.           *)
(* ---------------------------------------------------------------------- *)
Unidentified(r) ==
    /\ pc[r] # "idle"
    /\ LogEntriesOf(r) # {}
    /\ PaymentKeys(req[r].body) # {}
    /\ SplynxCustomerId(req[r].body) = NoCust

C22_UnidentifiedRejected ==
    \A r \in Reqs :
        Unidentified(r) =>
            IF req[r].body.amount = NoAmount
               /\ Cardinality(PaymentKeys(req[r].body)) < 2
            THEN resp[r].code = 200 /\ resp[r].kind = "test"
            ELSE resp[r].code = 400

(* ---------------------------------------------------------------------- *)
(* C23: a payload whose customer resolves but which has no amount is        *)
(* answered 4xx with the list of the missing fields; no payment row is      *)
(* inserted for it and postPaymentToUISP is not invoked.                    *)
(* ---------------------------------------------------------------------- *)
\* the customer of delivery r resolved and its payload has no amount
ResolvedWithoutAmount(r) ==
    /\ pc[r] # "idle"
    /\ lookup[r].method \in {"splynx_api", "direct_userIdent", "mapping_table"}
    /\ req[r].body.amount = NoAmount

\* the payload carried nothing but client_id: two fields after the handler
\* has set client_id and splynx_customer_id
OnlyClientId(body) == PaymentKeys(body) = {"client_id"}

NeitherStoredNorForwarded(r) ==
    /\ \A row \in payments : row.id # r
    /\ ~called[r]
    /\ pd[r] = NoPD

Synthesizes(r) ==
    /\ pc[r] = "idle" /\ pc'[r] = "read"
    /\ req'[r].body.transaction_id = NoTid

\* deliveries r1 and r2 carry the same payment without transaction_id and
\* were given ids at different times
SamePaymentTwice(r1, r2) ==
    /\ r1 # r2
    /\ req[r1].body = req[r2].body
    /\ pd[r1].synthesized /\ pd[r2].synthesized
    /\ pd[r1].transaction_id[2] # pd[r2].transaction_id[2]

OwnRecordAndForwards(r) ==
    called[r] =>
        /\ \E row \in payments : row.id = r /\ row.transaction_id = pd[r].transaction_id
        /\ appKey => FwdOf(pd[r].transaction_id).n >= 1

C24_SynthesizedIdsDiffer ==
    /\ [][\A r \in Reqs :
            Synthesizes(r) =>
                /\ pd'[r].synthesized
                /\ pd'[r].transaction_id = <<"SPLYNX", now, pd'[r].client_id>>]_vars
    /\ [](\A r1, r2 \in Reqs :
            SamePaymentTwice(r1, r2) =>
                /\ pd[r1].transaction_id # pd[r2].transaction_id
                /\ OwnRecordAndForwards(r1) /\ OwnRecordAndForwards(r2)
                /\ (called[r1] /\ called[r2]) =>
                      Cardinality({row \in payments : row.id \in {r1, r2}}) = 2)

\* the same payment without transaction_id was delivered at times 0 and 1:
\* two rows, both forwarded and both success
C24_Witness ==
    \E r1, r2 \in Reqs :
        /\ SamePaymentTwice(r1, r2)
        /\ pc[r1] = "done" /\ resp[r1].kind = "success"
        /\ pc[r2] = "done" /\ resp[r2].kind = "success"
        /\ Cardinality({row \in payments : row.status = "success"}) = 2
        /\ FwdOf(pd[r1].transaction_id).ok = 1
        /\ FwdOf(pd[r2].transaction_id).ok = 1

(* ---------------------------------------------------------------------- *)
(* C25: after a forward of delivery r was answered with success, the        *)
(* last_payment_at of the paying client is eventually set in the clients    *)
(* table, whatever the outcome of syncSingleClient.                         *)
(* ---------------------------------------------------------------------- *)
LastPaymentSet(client) == client \in DOMAIN clients /\ clients[client] # NoTime

C25_LastPaymentEventuallyUpdated ==
    \A r \in Reqs :
        (pc[r] = "updSuccess") ~> LastPaymentSet(pd[r].client_id)

(* ---------------------------------------------------------------------- *)
(* C26: while the forward of one delivery is suspended (its POST is in      *)
(* flight or retryWithBackoff sleeps), every step of another delivery can   *)
(* be taken, from its intake to its response; and no step of a delivery,    *)
(* failures included, changes the response or the payment row of another.   *)
(* ---------------------------------------------------------------------- *)
Suspended(r) == pc[r] \in {"attempt", "sleep"}

\* the step of delivery r's handler that is due
HandlerStep(r) ==
    \/ Receive(r)
    \/ ReadExisting(r)
    \/ InsertPayment(r)
    \/ AttemptSucceeds(r) \/ AttemptFails(r)
    \/ OnRetryReturns(r)
    \/ SleepEnds(r)
    \/ UpdateSuccessReturns(r)
    \/ UpdateFailedReturns(r)

RowsOfDelivery(table, r) == {row \in table : row.id = r}

C26_DeliveriesAreIndependent ==
    /\ [](\A r1, r2 \in Reqs :
            (r1 # r2 /\ Suspended(r1) /\ pc[r2] # "done" /\ NextToArrive(r2))
                => ENABLED HandlerStep(r2))
    /\ [][\A r, q \in Reqs :
            (r # q /\ pc'[r] # pc[r]) =>
                /\ resp'[q] = resp[q]
                /\ RowsOfDelivery(payments', q) = RowsOfDelivery(payments, q)]_vars

\* delivery r1 sleeps after a failed attempt while delivery r2, received
\* later for another transaction id, has been answered with success
C26_Witness ==
    \E r1, r2 \in Reqs :
        /\ r1 < r2
        /\ pc[r1] = "sleep"
        /\ pd[r1].transaction_id # pd[r2].transaction_id
        /\ pc[r2] = "done" /\ resp[r2].kind = "success"
        /\ \E row \in RowsOfDelivery(payments, r1) :
              row.status = "pending" /\ row.retry_count = 1
        /\ \E row \in RowsOfDelivery(payments, r2) : row.status = "success"

(* ---------------------------------------------------------------------- *)
(* C27: a payment row with status success is never changed again: no later  *)
(* step of its own request and no step of a later or concurrent delivery    *)
(* changes its status, uisp_response, error_message, retry_count or         *)
(* last_retry_at.                                                           *)
(* ---------------------------------------------------------------------- *)
C27_SuccessIsFinal ==
    [][\A row \in payments : row.status = "success" => row \in payments']_vars

\* a success row whose webhook was delivered again and answered as a
\* duplicate reporting success
C27_Witness ==
    \E row \in payments, r2 \in Reqs :
        /\ row.status = "success"
        /\ row.id # r2
        /\ pc[r2] = "done"
        /\ pd[r2].transaction_id = row.transaction_id
        /\ resp[r2].kind = "duplicate" /\ resp[r2].status = "success"

(* ---------------------------------------------------------------------- *)
(* C28: from the first attempt until retryWithBackoff returns or throws,    *)
(* the payment's row keeps status pending, uisp_response and error_message; *)
(* a retry writes retry_count (the number of the retry) and last_retry_at   *)
(* and nothing else.                                                        *)
(* ---------------------------------------------------------------------- *)
\* retryWithBackoff is running for a delivery whose handler is at position p
AttemptsInFlight(p) == p \in {"attempt", "onRetry", "sleep"}

C28_RetryWritesOnlyRetryColumns ==
    [][\A r \in Reqs :
        (AttemptsInFlight(pc[r]) /\ AttemptsInFlight(pc'[r])) =>
            \A row \in RowsOf(payments, pd[r].transaction_id) :
                \E after \in RowsOf(payments', pd[r].transaction_id) :
                    /\ after = [row EXCEPT !.retry_count = after.retry_count,
                                           !.last_retry_at = after.last_retry_at]
                    /\ after.status = "pending"
                    /\ after.uisp_response = NullResponse
                    /\ after.error_message = NoError
                    /\ IF pc[r] = "onRetry" /\ pc'[r] = "sleep"
                       THEN /\ after.retry_count = attempt[r] + 1
                            /\ after.last_retry_at = CURRENT_TIMESTAMP(now)
                       ELSE after = row]_vars

\* the second retry has been recorded and the payment is still pending
C28_Witness ==
    \E r \in Reqs :
        /\ pc[r] = "sleep"
        /\ attempt[r] = 1
        /\ \E row \in RowsOf(payments, pd[r].transaction_id) :
              /\ row.status = "pending"
              /\ row.retry_count = 2
              /\ row.last_retry_at # NoTime

(* ---------------------------------------------------------------------- *)
(* C29: the delay slept before retry n (n = 1..maxRetries) is               *)
(* min(initialDelay * multiplier^(n-1), maxDelay); the delays of one call   *)
(* never decrease, never exceed maxDelay, and there is none after the last  *)
(* failed attempt.                                                          *)
(* ---------------------------------------------------------------------- *)
C29_BackoffDelays ==
    \A r \in Reqs :
        LET d == slept[r] IN
        /\ Len(d) <= maxRetries
        /\ \A n \in 1..Len(d) :
              /\ d[n] = Min(initialDelay * Pow(backoffMultiplier, n - 1), maxDelay)
              /\ d[n] <= maxDelay
              /\ n > 1 => d[n - 1] <= d[n]
        /\ pc[r] \in {"attempt", "onRetry"} => Len(d) = attempt[r]
        /\ pc[r] = "sleep" => Len(d) = attempt[r] + 1
        /\ (pc[r] = "updFailed" /\ attempt[r] = maxRetries)
              => /\ Len(d) = maxRetries
                 /\ FwdOf(pd[r].transaction_id).failed = maxRetries + 1

\* RETRY_DELAY_MS is 20000: the budget was exhausted after the delays
\* 20000, 30000 and 30000, the last two capped
C29_Witness ==
    \E r \in Reqs :
        /\ initialDelay = 20000
        /\ pc[r] = "updFailed"
        /\ FwdOf(pd[r].transaction_id).failed = maxRetries + 1
        /\ slept[r] = <<20000, 30000, 30000>>

(* ---------------------------------------------------------------------- *)
(* C30: strategy 2 is attempted exactly when strategy 1 produced no client  *)
(* and the identifier received starts with W or w; for every other          *)
(* identifier that strategy 1 did not resolve the mapping table is read     *)
(* next.                                                                    *)
(* ---------------------------------------------------------------------- *)
\* the first character of an identifier, as the webhook carried it
FirstLetter(cust) ==
    CASE cust = "W2123" -> "W"
      [] cust = "w77" -> "w"
      [] cust = "838" -> "8"
      [] cust = "404" -> "4"
      [] OTHER -> ""

Attempted(r, strategy) == \E c \in CallsOf(r) : c.strategy = strategy

C30_Strategy2OnlyForW ==
    \A r \in Reqs :
        lookup[r] # NoLookup =>
            LET startsWithW == FirstLetter(req[r].body.cust) \in {"W", "w"} IN
            /\ Attempted(r, 2) <=> (~Strategy1Resolved(r) /\ startsWithW)
            /\ (~Strategy1Resolved(r) /\ ~startsWithW)
                  => /\ Attempted(r, 3)
                     /\ lookup[r].calls[Len(lookup[r].calls)].strategy = 3

(* ---------------------------------------------------------------------- *)
(* C31: an identifier that strategies 1 and 2 did not resolve and that has  *)
(* a row in customer_mappings resolves to the mapped client, whether the    *)
(* webhook carried it as a JSON string or as a JSON number (the read of     *)
(* the table not failing).                                                  *)
(* ---------------------------------------------------------------------- *)
\* the resolver ran for delivery r, strategies 1 and 2 produced no client,
\* and the identifier has a mapping
OnlyMappingResolves(r) ==
    /\ lookup[r] # NoLookup
    /\ \A c \in CallsOf(r) : c.strategy \in {1, 2} => ~Produced(c)
    /\ Call(3, "mapping", "throws") \notin CallsOf(r)
    /\ getUispClientId(mappings, req[r].body.cust) # NoClient

C31_MappedIdResolves ==
    \A r \in Reqs :
        OnlyMappingResolves(r) =>
            /\ lookup[r].method = "mapping_table"
            /\ Call(3, "mapping", "found") \in CallsOf(r)
            /\ resp[r].kind \notin {"internal", "customer_not_found"}
            /\ pd[r] # NoPD
                  => pd[r].client_id = getUispClientId(mappings, req[r].body.cust)

(* ---------------------------------------------------------------------- *)
(* C32: the providerPaymentTime is a valid wall-clock time at +03:00 that   *)
(* denotes the instant of the source timestamp: its hour is in 00..23, and  *)
(* its date is the day after the UTC date when the UTC hour is 21, 22 or 23.*)
(* ---------------------------------------------------------------------- *)
\* the number a two-digit field reads as
TwoDigits(field) == 10 * field[1] + field[2]

\* hours since 2025-12-14T00:00:00Z of the instant a formatted time denotes
InstantOf(text) ==
    (TwoDigits(text.day) - FirstDay) * 24 + TwoDigits(text.hours) - 3

C32_ProviderPaymentTimeIsValid ==
    providerPaymentTime # NoFormatted =>
        /\ providerPaymentTime.offset = "+03:00"
        /\ TwoDigits(providerPaymentTime.hours) \in 0..23
        /\ TwoDigits(providerPaymentTime.minutes) = sourceTime.minute
        /\ InstantOf(providerPaymentTime) = sourceTime.hour
        /\ sourceTime.hour % 24 \in {21, 22, 23}
              => TwoDigits(providerPaymentTime.day) = FirstDay + sourceTime.hour \div 24 + 1

(* ---------------------------------------------------------------------- *)
(* C33: with the mirror configured and every call to it succeeding, once    *)
(* the payment row of a delivery is success or failed the mirror's copy of  *)
(* the payment eventually has that status, however the insert call and the  *)
(* status-update call interleave.                                           *)
(* ---------------------------------------------------------------------- *)
LedgerStatus(r, status) == \E row \in RowsOfDelivery(payments, r) : row.status = status

MirrorStatus(r, status) ==
    /\ pd[r].transaction_id \in DOMAIN mirror
    /\ mirror[pd[r].transaction_id] = status

C33_MirrorEventuallyAgrees ==
    \A r \in Reqs : \A status \in {"success", "failed"} :
        LedgerStatus(r, status) ~> MirrorStatus(r, status)

(* ---------------------------------------------------------------------- *)
(* C34: syncAllClients requests the pages at offsets 0, 100, 200, ...; each *)
(* page before the last one requested was full; fetching ends at the first  *)
(* page with fewer than 100 records, after which no page is requested; and  *)
(* the run ends.                                                            *)
(* ---------------------------------------------------------------------- *)
\* the fetch loop has ended without an error
FetchEnded ==
    \/ sync.pc \in {"mark", "upsert", "finalize"}
    \/ sync.pc = "done" /\ sync.outcome = "returned"

PagesInOrder ==
    LET requested == sync.requests IN
    /\ \A k \in 1..Len(requested) :
          /\ requested[k] = (k - 1) * limit
          /\ k < Len(requested) => PageLength(uispClients, requested[k]) = limit
    /\ Len(requested) <= uispClients \div limit + 1
    /\ FetchEnded =>
          /\ PageLength(uispClients, requested[Len(requested)]) < limit
          /\ sync.fetched = uispClients

C34_PaginationTerminates ==
    /\ []PagesInOrder
    /\ <>(sync.pc = "done")

\* a collection of 200 clients: the pages at 0 and 100 were full, the empty
\* page at 200 ended the loop, and the run has returned
C34_Witness ==
    /\ uispClients = 200
    /\ sync.requests = <<0, 100, 200>>
    /\ sync.fetched = 200
    /\ sync.pc = "done" /\ sync.outcome = "returned"

(* ---------------------------------------------------------------------- *)
(* C35: in a full sync the failure of one upsert neither ends the run nor   *)
(* keeps any other fetched client from being upserted; when the run has     *)
(* returned, the row's synced and failed counts add up to the number of     *)
(* fetched clients and its total_records is that number.                    *)
(* ---------------------------------------------------------------------- *)
SyncReturned == sync.pc = "done" /\ sync.outcome = "returned"

C35_FailuresCountedTotalRecorded ==
    /\ sync.pc = "upsert" =>
          \A c \in 1..(sync.i - 1) : c \notin unstorable => c \in DOMAIN clients
    /\ SyncReturned =>
          /\ syncLog.status = "completed"
          /\ \A c \in 1..sync.fetched : c \notin unstorable => c \in DOMAIN clients
          /\ syncLog.synced_records + syncLog.failed_records = sync.fetched
          /\ syncLog.total_records = sync.fetched

(* ---------------------------------------------------------------------- *)
(* C36: the row of a sync run is created in_progress and written exactly    *)
(* once more, when the run ends, with status completed or failed: it is not *)
(* written while the run is under way, it is not in_progress once the run   *)
(* has ended, and a finalized row is not written again.                     *)
(* ---------------------------------------------------------------------- *)
SyncLogCreated == syncLog.status # "none"

C36_SyncLogWrittenOnceAtEnd ==
    /\ [](SyncLogCreated =>
            /\ sync.pc \in {"fetch", "mark", "upsert"} => sync.writes = <<>>
            /\ sync.pc = "done" =>
                  /\ Len(sync.writes) = 1
                  /\ syncLog.status \in {"completed", "failed"}
                  /\ syncLog.status = sync.writes[1])
    /\ [][syncLog.status \in {"completed", "failed"} => syncLog' = syncLog]_vars

(* ---------------------------------------------------------------------- *)
(* C37: a forward attempt for a transaction id is made only while the       *)
(* ledger holds a row of that id in status pending: the row is inserted     *)
(* before the first attempt is made, every row of the id is pending when an *)
(* attempt is made and while it is in flight, and no attempt is made once   *)
(* the row is success or failed.                                            *)
(* ---------------------------------------------------------------------- *)
PendingIn(table, tid) ==
    /\ RowsOf(table, tid) # {}
    /\ \A row \in RowsOf(table, tid) : row.status = "pending"

AttemptMade(tid) == FwdIn(fwd', tid).n > FwdOf(tid).n

C37_AttemptsOnlyWhilePending ==
    /\ [](\A r \in Reqs : pc[r] = "attempt" => PendingIn(payments, pd[r].transaction_id))
    /\ [][\A tid \in DOMAIN fwd' :
            AttemptMade(tid) =>
                /\ PendingIn(payments', tid)
                /\ FwdOf(tid).n = 0 => RowsOf(payments, tid) = {}
                /\ FwdOf(tid).n > 0 => PendingIn(payments, tid)]_vars

\* a second attempt is in flight for a payment whose row is pending, next to
\* a payment whose row is final
C37_Witness ==
    \E r, q \in Reqs :
        /\ pc[r] = "attempt"
        /\ FwdOf(pd[r].transaction_id).n = 2
        /\ PendingIn(payments, pd[r].transaction_id)
        /\ pc[q] = "done"
        /\ \E row \in RowsOf(payments, pd[q].transaction_id) : row.status = "success"

(* ---------------------------------------------------------------------- *)
(* C38: the mirror never runs ahead of the ledger: the insert call for a    *)
(* transaction id is issued in the step in which the ledger insert of that  *)
(* id succeeded and is sent at most once, a status update call carrying     *)
(* status s is issued and in flight only when the ledger row has status s,  *)
(* and the status the mirror holds is pending or the status of the ledger.  *)
(* ---------------------------------------------------------------------- *)
LedgerHas(table, tid, status) ==
    /\ RowsOf(table, tid) # {}
    /\ \A row \in RowsOf(table, tid) : row.status = status

RetriesMade(row) == Max(0, FwdOf(row.transaction_id).n - 1)

\* the retries decided for a row: the retries made, and the one the handler
\* sleeps for after it has written the count
RetriesDecided(row) ==
    RetriesMade(row) + (IF pc[row.id] = "sleep" THEN 1 ELSE 0)

FirstAttemptSucceeded(row) ==
    FwdOf(row.transaction_id).ok = 1 /\ FwdOf(row.transaction_id).failed = 0

RetryCountNeverDecreases ==
    [][\A row \in payments :
          \A next \in RowsOf(payments', row.transaction_id) :
              next.retry_count >= row.retry_count]_vars

\* C39 as stated: in every state retry_count is between 0 and maxRetries,
\* never decreases, and equals the number of retries made for the row
C39_RetryCountIsRetriesMade ==
    /\ [](\A row \in payments :
            /\ row.retry_count \in 0..maxRetries
            /\ row.retry_count = RetriesMade(row)
            /\ FirstAttemptSucceeded(row) => row.retry_count = 0)
    /\ RetryCountNeverDecreases

\* C39 as amended: the count is written when the retry is decided, before
\* the sleep that precedes it
C39_RetryCountIsRetriesDecided ==
    /\ [](\A row \in payments :
            /\ row.retry_count \in 0..maxRetries
            /\ row.retry_count = RetriesDecided(row)
            /\ pc[row.id] # "sleep" => row.retry_count = RetriesMade(row)
            /\ FirstAttemptSucceeded(row) => row.retry_count = 0)
    /\ RetryCountNeverDecreases

\* a payment that failed after maxRetries retries, and a payment whose first
\* attempt succeeded
C39_Witness ==
    \E row, other \in payments :
        /\ row.status = "failed" /\ row.retry_count = maxRetries
        /\ FwdOf(row.transaction_id).failed = maxRetries + 1
        /\ other.status = "success" /\ other.retry_count = 0
        /\ FirstAttemptSucceeded(other)

(* ---------------------------------------------------------------------- *)
(* C40: every row inserted as pending eventually has status success or      *)
(* failed when every forward attempt terminates: no delivery ends with its  *)
(* row left pending.                                                        *)
(* ---------------------------------------------------------------------- *)
PendingRow(r) == \E row \in RowsOfDelivery(payments, r) : row.status = "pending"

FinalRow(r) ==
    \E row \in RowsOfDelivery(payments, r) : row.status \in {"success", "failed"}

FinalWriteRejected(r) ==
    /\ pc[r] = "done"
    /\ resp[r].code = 500 /\ resp[r].kind = "internal" /\ resp[r].message = DbError

====
